---- MODULE Spec2Model ----
(***************************************************************************)
(* A model of calculadora-keto: the ingredient inventory, the recipe form  *)
(* with its costing, and the sale calculator, over a shared document       *)
(* store with live query subscriptions.                                    *)
(*                                                                         *)
(* Numbers.  A JavaScript number is modelled as an exact fraction          *)
(* [n |-> numerator, d |-> denominator] in lowest terms with d > 0; the    *)
(* three non-finite values are d = 0: NaN is 0/0, +Infinity is 1/0 and     *)
(* -Infinity is -1/0.  Rounding of IEEE doubles is not modelled.           *)
(*                                                                         *)
(* Text.  A string that is parsed or produced by a conversion is a         *)
(* sequence of one-character strings, so that parseFloat and toString     *)
(* are computed character by character.                                    *)
(***************************************************************************)
EXTENDS Integers, Sequences, FiniteSets, TLC

(***************************************************************************)
(* Numbers                                                                 *)
(***************************************************************************)
Abs(x) == IF x < 0 THEN -x ELSE x

Sign(x) == IF x < 0 THEN -1 ELSE IF x > 0 THEN 1 ELSE 0

RECURSIVE Gcd(_, _)
Gcd(a, b) == IF b = 0 THEN a ELSE Gcd(b, a % b)

NaN == [n |-> 0, d |-> 0]

\* The number num/den in lowest terms; den = 0 gives NaN or an infinity.
Num(num, den) ==
  IF den = 0 THEN [n |-> Sign(num), d |-> 0]
  ELSE LET s == IF den < 0 THEN -1 ELSE 1
           g == Gcd(Abs(num), Abs(den))
       IN  [n |-> (s * num) \div g, d |-> (s * den) \div g]

Int2Num(k) == [n |-> k, d |-> 1]

isNaN(x) == x.n = 0 /\ x.d = 0

\* x * y, x / y, x + y, x - y of JavaScript numbers.
Mul(x, y) == Num(x.n * y.n, x.d * y.d)

Div(x, y) ==
  IF isNaN(x) \/ isNaN(y) THEN NaN
  ELSE IF y.d = 0 THEN (IF x.d = 0 THEN NaN ELSE Int2Num(0))
  ELSE IF y.n = 0 THEN [n |-> Sign(x.n), d |-> 0]
  ELSE Num(x.n * y.d * Sign(y.n), x.d * Abs(y.n))

Add(x, y) ==
  IF isNaN(x) \/ isNaN(y) THEN NaN
  ELSE IF x.d = 0 /\ y.d = 0 THEN (IF x.n = y.n THEN x ELSE NaN)
  ELSE IF x.d = 0 THEN x
  ELSE IF y.d = 0 THEN y
  ELSE Num(x.n * y.d + y.n * x.d, x.d * y.d)

Sub(x, y) == Add(x, [n |-> -y.n, d |-> y.d])

\* x > 0 and x <= 0: both are false of NaN.
GtZero(x) == x.n > 0

LeqZero(x) == ~isNaN(x) /\ x.n <= 0

\* x === y: NaN is equal to nothing, itself included.
StrictEq(x, y) == ~isNaN(x) /\ ~isNaN(y) /\ x = y

\* A number in a boolean context (x || 0, !x): 0 and NaN are falsy.
Truthy(x) == x.n # 0

(***************************************************************************)
(* Text                                                                    *)
(***************************************************************************)
Digits == <<"0", "1", "2", "3", "4", "5", "6", "7", "8", "9">>

IsDigit(c) == \E k \in 1..10 : Digits[k] = c

DigitVal(c) == (CHOOSE k \in 1..10 : Digits[k] = c) - 1

RECURSIVE Pow10(_)
Pow10(k) == IF k = 0 THEN 1 ELSE 10 * Pow10(k - 1)

\* The longest prefix of s made of digits.
RECURSIVE DigitPrefix(_)
DigitPrefix(s) ==
  IF s = <<>> \/ ~IsDigit(Head(s)) THEN <<>>
  ELSE <<Head(s)>> \o DigitPrefix(Tail(s))

RECURSIVE DigitsVal(_)
DigitsVal(s) ==
  IF s = <<>> THEN 0
  ELSE DigitsVal(SubSeq(s, 1, Len(s) - 1)) * 10 + DigitVal(s[Len(s)])

RECURSIVE SkipSpaces(_)
SkipSpaces(s) ==
  IF s # <<>> /\ Head(s) = " " THEN SkipSpaces(Tail(s)) ELSE s

Drop(s, k) == SubSeq(s, k + 1, Len(s))

InfinityText == <<"I", "n", "f", "i", "n", "i", "t", "y">>

NaNText == <<"N", "a", "N">>

IsPrefix(p, s) == Len(p) <= Len(s) /\ SubSeq(s, 1, Len(p)) = p

\* parseFloat(s): leading white space is skipped, then the longest prefix
\* that is a decimal literal (sign, digits, a point, digits) is converted;
\* what follows it is ignored, and NaN is returned when there is no such
\* prefix.  Exponents are not modelled: no text of the model holds an "e".
parseFloat(s) ==
  LET t    == SkipSpaces(s)
      neg  == t # <<>> /\ Head(t) = "-"
      u    == IF t # <<>> /\ Head(t) \in {"-", "+"} THEN Tail(t) ELSE t
      ip   == DigitPrefix(u)
      v    == Drop(u, Len(ip))
      fp   == IF v # <<>> /\ Head(v) = "." THEN DigitPrefix(Tail(v)) ELSE <<>>
      sgn  == IF neg THEN -1 ELSE 1
  IN  IF IsPrefix(InfinityText, u) THEN [n |-> sgn, d |-> 0]
      ELSE IF ip = <<>> /\ fp = <<>> THEN NaN
      ELSE Num(sgn * (DigitsVal(ip) * Pow10(Len(fp)) + DigitsVal(fp)),
               Pow10(Len(fp)))

RECURSIVE NatText(_)
NatText(k) ==
  IF k < 10 THEN <<Digits[k + 1]>>
  ELSE NatText(k \div 10) \o <<Digits[(k % 10) + 1]>>

\* The digits of r/d (0 <= r < d) after the point, at most left of them.
RECURSIVE FracText(_, _, _)
FracText(r, d, left) ==
  IF r = 0 \/ left = 0 THEN <<>>
  ELSE <<Digits[((r * 10) \div d) + 1]>> \o FracText((r * 10) % d, d, left - 1)

MaxFracDigits == 17

\* toString as toLocaleString writes a number: the thousands grouped.
toString_Grouped(x) ==
  IF isNaN(x) THEN NaNText
  ELSE IF x.d = 0 THEN (IF x.n < 0 THEN <<"-">> ELSE <<>>) \o InfinityText
  ELSE LET a     == Abs(x.n)
           whole == a \div x.d
           low   == whole % 1000
           ft    == FracText(a % x.d, x.d, 3)
       IN  (IF x.n < 0 THEN <<"-">> ELSE <<>>)
           \o (IF whole < 1000 THEN NatText(whole)
               ELSE NatText(whole \div 1000) \o <<",">>
                    \o <<Digits[(low \div 100) + 1], Digits[((low \div 10) % 10) + 1],
                          Digits[(low % 10) + 1]>>)
           \o (IF ft = <<>> THEN <<>> ELSE <<".">> \o ft)


\* Number.prototype.toString(): the shortest decimal text of the number,
\* "NaN", "Infinity" or "-Infinity".  No exponent form: the numbers of the
\* model are far from 1e21 and 1e-7.
toString(x) ==
  IF isNaN(x) THEN NaNText
  ELSE IF x.d = 0 THEN (IF x.n < 0 THEN <<"-">> ELSE <<>>) \o InfinityText
  ELSE LET a  == Abs(x.n)
           ft == FracText(a % x.d, x.d, MaxFracDigits)
       IN  (IF x.n < 0 THEN <<"-">> ELSE <<>>)
           \o NatText(a \div x.d)
           \o (IF ft = <<>> THEN <<>> ELSE <<".">> \o ft)


(***************************************************************************)
(* Names: upper and lower case, trimming and the order of localeCompare    *)
(***************************************************************************)
LowerLetters == <<"a", "b", "c", "d", "e", "f", "g", "h", "i", "j", "k", "l", "m",
                  "n", "o", "p", "q", "r", "s", "t", "u", "v", "w", "x", "y", "z">>

UpperLetters == <<"A", "B", "C", "D", "E", "F", "G", "H", "I", "J", "K", "L", "M",
                  "N", "O", "P", "Q", "R", "S", "T", "U", "V", "W", "X", "Y", "Z">>

IsUpper(c) == \E k \in 1..26 : UpperLetters[k] = c

LowerChar(c) ==
  IF IsUpper(c) THEN LowerLetters[CHOOSE k \in 1..26 : UpperLetters[k] = c] ELSE c

toLowerCase(s) == [k \in 1..Len(s) |-> LowerChar(s[k])]

\* The primary weight of a character: the space sorts before the digits,
\* the digits before the letters, and a letter has the weight of its lower
\* case.
CharWeight(c) ==
  IF c = " " THEN 0
  ELSE IF IsDigit(c) THEN 1 + DigitVal(c)
  ELSE IF \E k \in 1..26 : LowerLetters[k] = LowerChar(c)
       THEN 11 + (CHOOSE k \in 1..26 : LowerLetters[k] = LowerChar(c))
  ELSE 40

\* Lexicographic comparison of two sequences of weights: -1, 0 or 1.
RECURSIVE CompareSeq(_, _)
CompareSeq(a, b) ==
  IF a = <<>> /\ b = <<>> THEN 0
  ELSE IF a = <<>> THEN -1
  ELSE IF b = <<>> THEN 1
  ELSE IF Head(a) < Head(b) THEN -1
  ELSE IF Head(a) > Head(b) THEN 1
  ELSE CompareSeq(Tail(a), Tail(b))

CaseWeight(c) == IF IsUpper(c) THEN 1 ELSE 0

\* a.localeCompare(b): the letters decide first, and between two names
\* with the same letters the lower case sorts first.
localeCompare(a, b) ==
  LET primary == CompareSeq([k \in 1..Len(a) |-> CharWeight(a[k])],
                            [k \in 1..Len(b) |-> CharWeight(b[k])])
  IN  IF primary # 0 THEN primary
      ELSE CompareSeq([k \in 1..Len(a) |-> CaseWeight(a[k])],
                      [k \in 1..Len(b) |-> CaseWeight(b[k])])

RECURSIVE TrimEnd(_)
TrimEnd(s) ==
  IF s # <<>> /\ s[Len(s)] = " " THEN TrimEnd(SubSeq(s, 1, Len(s) - 1)) ELSE s

\* s.trim()
trim(s) == TrimEnd(SkipSpaces(s))

(***************************************************************************)
(* src/types.ts                                                            *)
(***************************************************************************)
Unit == {"Kg", "Gr", "Lt", "Un"}

\* getConversionFactor with the litre taken as its own usage unit.
getConversionFactor_LitreAsOne(u) == IF u = "Kg" THEN 1000 ELSE 1

getConversionFactor(u) ==
  CASE u = "Kg" -> 1000
    [] u = "Lt" -> 1000
    [] u = "Gr" -> 1
    [] u = "Un" -> 1
    [] OTHER    -> 1

(***************************************************************************)
(* Bounds and the values typed into the forms                              *)
(***************************************************************************)
\* Documents each collection ever gets (the store never reuses an id), and
\* rows of the recipe form.
MaxIngredients == 2

MaxRecipes == 1

\* Tickets requested in a run.
MaxTickets == 2

MaxRows == 2

\* No id: the '' of an unselected row or recipe and the null of editingId,
\* both falsy.  A document id is a positive integer.
NoId == 0

\* The signed-in account.
userId == "u1"

T0 == <<"0">>

T3 == <<"3">>

T5 == <<"5">>

T100 == <<"1", "0", "0">>

T200 == <<"2", "0", "0">>

T200p0 == <<"2", "0", "0", ".", "0">>

T1000 == <<"1", "0", "0", "0">>

T10000 == <<"1", "0", "0", "0", "0">>

T2p50 == <<"2", ".", "5", "0">>

Harina == <<"h", "a", "r", "i", "n", "a">>

Huevo == <<"h", "u", "e", "v", "o">>

Torta == <<"t", "o", "r", "t", "a">>

VARIABLES
  \* the document store: the ingredients and recipes collections, and the
  \* next automatic id of each
  dbIngredients, dbRecipes, nextIngredientId, nextRecipeId,
  \* App
  activeTab,
  \* Recipes
  availableIngredients, savedRecipes, recipeName, ingredientsList, totalYield,
  editingId, errorMsg,
  \* Ingredients
  ingredients, ingName, ingUnit, ingPrice, ingEditingId, ingError,
  \* Calculator
  calcRecipes, selectedRecipeId, sellWeight, calcErrorMsg,
  \* the ticket requests whose logo image is still loading, the tickets
  \* saved, and the number of the next request
  pendingTickets, savedTickets, nextTicketId,
  \* what the handler that ran last did: its outcome and its store call
  effect

dbVars == <<dbIngredients, dbRecipes, nextIngredientId, nextRecipeId>>

recipesVars == <<availableIngredients, savedRecipes, recipeName, ingredientsList,
                 totalYield, editingId, errorMsg>>

formVars == <<recipeName, ingredientsList, totalYield, editingId>>

ingredientsVars == <<ingredients, ingName, ingUnit, ingPrice, ingEditingId, ingError>>

\* The tickets outlive the component: the image of a request loads or
\* fails whether or not the Ventas tab is still open.
ticketVars == <<pendingTickets, savedTickets, nextTicketId>>

calculatorVars == <<calcRecipes, selectedRecipeId, sellWeight, calcErrorMsg,
                    ticketVars>>

vars == <<dbVars, activeTab, recipesVars, ingredientsVars, calculatorVars, effect>>

NoEffect == [op |-> "none"]

(***************************************************************************)
(* The store's queries                                                     *)
(***************************************************************************)
\* The documents of col in the order of their ids (a query without orderBy
\* returns them in the order of the document name).
RECURSIVE DocsById(_)
DocsById(col) ==
  IF col = {} THEN <<>>
  ELSE LET first == CHOOSE x \in col : \A y \in col : x.id <= y.id
       IN  <<first>> \o DocsById(col \ {first})

\* QueryByUser without the where clause.
QueryByUser_Everyone(col, uid) == DocsById(col)

\* query(collection, where('userId', '==', uid))
QueryByUser(col, uid) == DocsById({x \in col : x.userId = uid})

\* doc is put behind the last element that does not sort after it.
RECURSIVE InsertByName(_, _)
InsertByName(sorted, x) ==
  IF sorted = <<>> THEN <<x>>
  ELSE IF localeCompare(Head(sorted).name, x.name) <= 0
       THEN <<Head(sorted)>> \o InsertByName(Tail(sorted), x)
  ELSE <<x>> \o sorted

\* data.sort((a, b) => a.name.localeCompare(b.name)): a stable sort.
RECURSIVE SortByName(_)
SortByName(data) ==
  IF data = <<>> THEN <<>>
  ELSE InsertByName(SortByName(SubSeq(data, 1, Len(data) - 1)), data[Len(data)])

\* The snapshot callback's list: the user's documents, sorted by name.
Snapshot(col) == SortByName(QueryByUser(col, userId))

\* list.find(x => x.id === id): the index of the first match, 0 for none.
FindIndex(list, id) ==
  IF \E k \in 1..Len(list) : list[k].id = id
  THEN CHOOSE k \in 1..Len(list) :
         list[k].id = id /\ \A j \in 1..(k - 1) : list[j].id # id
  ELSE 0

Resolves(list, id) == FindIndex(list, id) # 0

Find(list, id) == list[FindIndex(list, id)]

\* A write of this session reaches its own listeners at once, before the
\* write's promise settles (the store's latency compensation): the list
\* a listener then receives is the one it holds with the write applied.
\* What other sessions wrote arrives with a later snapshot.
LocalDocs(list) == {list[k] : k \in 1..Len(list)}

AfterLocalSet(list, x) ==
  SortByName(DocsById({y \in LocalDocs(list) : y.id # x.id} \cup {x}))

AfterLocalDelete(list, id) ==
  SortByName(DocsById({y \in LocalDocs(list) : y.id # id}))

(***************************************************************************)
(* src/components/Recipes.tsx                                              *)
(***************************************************************************)
BlankRow == [ingredientId |-> NoId, quantityUsed |-> <<>>]

\* rowCost without the conversion of the purchase unit.
rowCost_NoConversion(ing, qty) == Mul(ing.pricePerUnit, qty)

\* rowCost charging every purchase unit that is opened in full.
rowCost_WholeUnits(ing, qty) ==
  IF qty.d = 0 THEN NaN
  ELSE LET per == qty.d * getConversionFactor(ing.unit)
       IN  Mul(ing.pricePerUnit, Int2Num((qty.n + per - 1) \div per))

\* (ing.pricePerUnit / factor) * qty, in calculateTotalCost
rowCost(ing, qty) ==
  Mul(Div(ing.pricePerUnit, Int2Num(getConversionFactor(ing.unit))), qty)

\* TotalFrom with a row that does not resolve costed at a price of 1.
RECURSIVE TotalFrom_DefaultPrice(_, _, _)
TotalFrom_DefaultPrice(list, available, total) ==
  IF list = <<>> THEN total
  ELSE LET item == Head(list)
           qty  == parseFloat(item.quantityUsed)
       IN  TotalFrom_DefaultPrice(Tail(list), available,
             IF isNaN(qty) THEN total
             ELSE IF Resolves(available, item.ingredientId)
             THEN Add(total, rowCost(Find(available, item.ingredientId), qty))
             ELSE Add(total, qty))

\* total after the rows of list, each added to it in turn
RECURSIVE TotalFrom(_, _, _)
TotalFrom(list, available, total) ==
  IF list = <<>> THEN total
  ELSE LET item == Head(list)
           qty  == parseFloat(item.quantityUsed)
       IN  TotalFrom(Tail(list), available,
             IF Resolves(available, item.ingredientId) /\ ~isNaN(qty)
             THEN Add(total, rowCost(Find(available, item.ingredientId), qty))
             ELSE total)

calculateTotalCost == TotalFrom(ingredientsList, availableIngredients, Int2Num(0))

\* (ing.pricePerUnit / factor) * qty, in handleSubmit's finalIngredients
calculatedCost(ing, qty) ==
  Mul(Div(ing.pricePerUnit, Int2Num(getConversionFactor(ing.unit))), qty)

\* A row whose ingredient is not in the list: find(...)! gives undefined
\* and reading ing.unit throws a TypeError.
MapThrows == \E k \in 1..Len(ingredientsList) :
               ~Resolves(availableIngredients, ingredientsList[k].ingredientId)

finalIngredients ==
  [k \in 1..Len(ingredientsList) |->
     LET item == ingredientsList[k]
         ing  == Find(availableIngredients, item.ingredientId)
         qty  == parseFloat(item.quantityUsed)
     IN  [ingredientId   |-> item.ingredientId,
          quantityUsed   |-> qty,
          calculatedCost |-> calculatedCost(ing, qty)]]

recipeData ==
  LET yieldWeight == parseFloat(totalYield)
      totalCost   == calculateTotalCost
  IN  [userId           |-> userId,
       name             |-> recipeName,
       ingredients      |-> finalIngredients,
       totalYieldWeight |-> yieldWeight,
       totalCost        |-> totalCost,
       costPerGram      |-> Div(totalCost, yieldWeight)]

\* The document with the fields of data and the id given.
WithId(data, id) == [k \in DOMAIN data \cup {"id"} |-> IF k = "id" THEN id ELSE data[k]]

HasDoc(col, id) == \E x \in col : x.id = id

DocOf(col, id) == CHOOSE x \in col : x.id = id

\* updateDoc that adds the document beside the one stored.
AfterUpdateDoc_AddsCopy(col, id, data) == col \cup {WithId(data, id)}

\* The collection after updateDoc(doc(db, 'recipes', id), data), every field
\* of the record being in data.
AfterUpdateDoc(col, id, data) == (col \ {DocOf(col, id)}) \cup {WithId(data, id)}

\* Refused without the test yieldWeight <= 0.
Refused_NoSignTest ==
  \/ recipeName = <<>>
  \/ Len(ingredientsList) = 0
  \/ isNaN(parseFloat(totalYield))

\* handleSubmit's validation: the form is refused.
Refused ==
  LET yieldWeight == parseFloat(totalYield)
  IN  \/ recipeName = <<>>
      \/ Len(ingredientsList) = 0
      \/ isNaN(yieldWeight)
      \/ LeqZero(yieldWeight)

resetForm ==
  /\ recipeName' = <<>>
  /\ ingredientsList' = <<>>
  /\ totalYield' = <<>>
  /\ editingId' = NoId
  /\ errorMsg' = ""

RecipesIngredientsSnapshot ==
  /\ activeTab = "recipes"
  /\ availableIngredients' = Snapshot(dbIngredients)
  /\ effect' = NoEffect
  /\ UNCHANGED <<dbVars, activeTab, savedRecipes, formVars, errorMsg,
                 ingredientsVars, calculatorVars>>

RecipesRecipesSnapshot ==
  /\ activeTab = "recipes"
  /\ savedRecipes' = Snapshot(dbRecipes)
  /\ effect' = NoEffect
  /\ UNCHANGED <<dbVars, activeTab, availableIngredients, formVars, errorMsg,
                 ingredientsVars, calculatorVars>>

setRecipeName(value) ==
  /\ activeTab = "recipes"
  /\ recipeName' = value
  /\ effect' = NoEffect
  /\ UNCHANGED <<dbVars, activeTab, availableIngredients, savedRecipes,
                 ingredientsList, totalYield, editingId, errorMsg,
                 ingredientsVars, calculatorVars>>

setTotalYield(value) ==
  /\ activeTab = "recipes"
  /\ totalYield' = value
  /\ effect' = NoEffect
  /\ UNCHANGED <<dbVars, activeTab, availableIngredients, savedRecipes,
                 recipeName, ingredientsList, editingId, errorMsg,
                 ingredientsVars, calculatorVars>>

setIngredientsList(newList) ==
  /\ ingredientsList' = newList
  /\ effect' = NoEffect
  /\ UNCHANGED <<dbVars, activeTab, availableIngredients, savedRecipes,
                 recipeName, totalYield, editingId, errorMsg,
                 ingredientsVars, calculatorVars>>

addIngredientRow ==
  /\ activeTab = "recipes"
  /\ Len(ingredientsList) < MaxRows
  /\ setIngredientsList(Append(ingredientsList, BlankRow))

removeIngredientRow(index) ==
  /\ activeTab = "recipes"
  /\ index \in 1..Len(ingredientsList)
  /\ setIngredientsList(SubSeq(ingredientsList, 1, index - 1)
                        \o SubSeq(ingredientsList, index + 1, Len(ingredientsList)))

\* The options of a row's select: none, and the ingredients of the list.
IngredientOptions ==
  {NoId} \cup {availableIngredients[k].id : k \in 1..Len(availableIngredients)}

handleRowChange(index, field, value) ==
  /\ activeTab = "recipes"
  /\ index \in 1..Len(ingredientsList)
  /\ field = "ingredientId" => value \in IngredientOptions
  /\ setIngredientsList(
       [ingredientsList EXCEPT ![index] = [@ EXCEPT ![field] = value]])

\* catchSaveError with the form cleared as after a save.
catchSaveError_ResetsForm ==
  /\ recipeName' = <<>>
  /\ ingredientsList' = <<>>
  /\ totalYield' = <<>>
  /\ editingId' = NoId
  /\ errorMsg' = "Error al guardar. Verifica tu conexion."
  /\ UNCHANGED <<dbVars, savedRecipes>>

\* The catch of handleSubmit: the write was refused and only the message
\* is set.
catchSaveError ==
  /\ errorMsg' = "Error al guardar. Verifica tu conexion."
  /\ UNCHANGED <<dbVars, formVars, savedRecipes>>

\* ok: whether the store accepts the write.  The write, the snapshot it
\* raises in this session and what follows the await are one step.
\* The handler is modelled for every state the form can hold: the required
\* attributes of the inputs (lines 227, 251, 265, 302) are checked by the
\* browser before the submit event, not by the handler.
handleSubmit(ok) ==
  /\ activeTab = "recipes"
  /\ IF Refused
     THEN /\ errorMsg' = ""
          /\ effect' = [op |-> "Recipes.handleSubmit", outcome |-> "alert"]
          /\ UNCHANGED <<dbVars, formVars, savedRecipes>>
     ELSE IF MapThrows
     THEN /\ errorMsg' = ""
          /\ effect' = [op |-> "Recipes.handleSubmit", outcome |-> "TypeError"]
          /\ UNCHANGED <<dbVars, formVars, savedRecipes>>
     ELSE IF editingId # NoId
     THEN IF ok /\ HasDoc(dbRecipes, editingId)
          THEN /\ dbRecipes' = AfterUpdateDoc(dbRecipes, editingId, recipeData)
               /\ savedRecipes' = AfterLocalSet(savedRecipes,
                                                WithId(recipeData, editingId))
               /\ effect' = [op |-> "Recipes.handleSubmit", outcome |-> "saved",
                             call |-> "updateDoc", id |-> editingId,
                             data |-> recipeData]
               /\ resetForm
               /\ UNCHANGED <<dbIngredients, nextIngredientId, nextRecipeId>>
          ELSE /\ catchSaveError
               /\ effect' = [op |-> "Recipes.handleSubmit", outcome |-> "failed",
                             call |-> "updateDoc", id |-> editingId,
                             data |-> recipeData]
     ELSE IF ok
          THEN /\ nextRecipeId <= MaxRecipes
               /\ dbRecipes' = dbRecipes \cup {WithId(recipeData, nextRecipeId)}
               /\ savedRecipes' = AfterLocalSet(savedRecipes,
                                                WithId(recipeData, nextRecipeId))
               /\ nextRecipeId' = nextRecipeId + 1
               /\ effect' = [op |-> "Recipes.handleSubmit", outcome |-> "saved",
                             call |-> "addDoc", id |-> nextRecipeId,
                             data |-> recipeData]
               /\ resetForm
               /\ UNCHANGED <<dbIngredients, nextIngredientId>>
          ELSE /\ catchSaveError
               /\ effect' = [op |-> "Recipes.handleSubmit", outcome |-> "failed",
                             call |-> "addDoc", id |-> NoId, data |-> recipeData]
  /\ UNCHANGED <<activeTab, availableIngredients, ingredientsVars, calculatorVars>>

getIngredientUnitLabel(id) ==
  IF ~Resolves(availableIngredients, id) THEN "cant"
  ELSE LET ing == Find(availableIngredients, id)
       IN  CASE ing.unit = "Kg" -> "gramos"
             [] ing.unit = "Lt" -> "ml"
             [] OTHER           -> "unidades"

\* The label shown in a row's quantity input.
rowUnitLabel(row) ==
  IF row.ingredientId # NoId THEN getIngredientUnitLabel(row.ingredientId) ELSE "-"

\* The rows of a saved recipe as the form holds them.
localIngredients(recipe) ==
  [k \in 1..Len(recipe.ingredients) |->
     [ingredientId |-> recipe.ingredients[k].ingredientId,
      quantityUsed |-> toString(recipe.ingredients[k].quantityUsed)]]

handleEdit(recipe) ==
  /\ activeTab = "recipes"
  /\ \E k \in 1..Len(savedRecipes) : savedRecipes[k] = recipe
  /\ recipeName' = recipe.name
  /\ totalYield' = toString(recipe.totalYieldWeight)
  /\ ingredientsList' = localIngredients(recipe)
  /\ editingId' = recipe.id
  /\ effect' = NoEffect
  /\ UNCHANGED <<dbVars, activeTab, availableIngredients, savedRecipes, errorMsg,
                 ingredientsVars, calculatorVars>>

\* What follows the deleteDoc with the form left as it is.
afterDelete_KeepsForm(id) == UNCHANGED <<formVars, errorMsg>>

\* What follows the deleteDoc: if (editingId === id) resetForm().
afterDelete(id) ==
  IF editingId = id THEN resetForm ELSE UNCHANGED <<formVars, errorMsg>>

\* confirmed: the answer to window.confirm; ok: whether the store accepts
\* the delete.
handleDelete(id, confirmed, ok) ==
  /\ activeTab = "recipes"
  /\ \E k \in 1..Len(savedRecipes) : savedRecipes[k].id = id
  /\ IF id = NoId \/ ~confirmed
     THEN /\ effect' = NoEffect
          /\ UNCHANGED <<dbVars, formVars, errorMsg, savedRecipes>>
     ELSE IF ok
     THEN /\ dbRecipes' = {x \in dbRecipes : x.id # id}
          /\ savedRecipes' = AfterLocalDelete(savedRecipes, id)
          /\ effect' = [op |-> "Recipes.handleDelete", outcome |-> "deleted",
                        call |-> "deleteDoc", id |-> id,
                        reset |-> (editingId = id)]
          /\ afterDelete(id)
          /\ UNCHANGED <<dbIngredients, nextIngredientId, nextRecipeId>>
     ELSE /\ effect' = [op |-> "Recipes.handleDelete", outcome |-> "alert",
                        call |-> "deleteDoc", id |-> id]
          /\ UNCHANGED <<dbVars, formVars, errorMsg, savedRecipes>>
  /\ UNCHANGED <<activeTab, availableIngredients, ingredientsVars, calculatorVars>>

\* The Cancelar button, shown while a recipe is being edited.
cancelEdit ==
  /\ activeTab = "recipes"
  /\ editingId # NoId
  /\ resetForm
  /\ effect' = NoEffect
  /\ UNCHANGED <<dbVars, activeTab, availableIngredients, savedRecipes,
                 ingredientsVars, calculatorVars>>

(***************************************************************************)
(* src/App.tsx: Calculator                                                 *)
(***************************************************************************)
\* recipes.find(r => r.id === selectedRecipeId) is defined
HasSelectedRecipe == Resolves(calcRecipes, selectedRecipeId)

selectedRecipe == Find(calcRecipes, selectedRecipeId)

\* parseFloat(sellWeight) || 0
weight ==
  LET parsed == parseFloat(sellWeight)
  IN  IF Truthy(parsed) THEN parsed ELSE Int2Num(0)

\* costPerGram joined with the ingredients as the store holds them now,
\* instead of read from the saved recipe.
costPerGram_LiveJoin ==
  IF HasSelectedRecipe
  THEN LET rows == selectedRecipe.ingredients
           live(row) ==
             IF HasDoc(dbIngredients, row.ingredientId)
             THEN rowCost(DocOf(dbIngredients, row.ingredientId), row.quantityUsed)
             ELSE Int2Num(0)
           sum[k \in 0..Len(rows)] ==
             IF k = 0 THEN Int2Num(0) ELSE Add(sum[k - 1], live(rows[k]))
       IN  Div(sum[Len(rows)], selectedRecipe.totalYieldWeight)
  ELSE Int2Num(0)

costPerGram == IF HasSelectedRecipe THEN selectedRecipe.costPerGram ELSE Int2Num(0)

realCost == Mul(costPerGram, weight)

\* suggestedPrice with a markup of 2.
suggestedPrice_Double == Mul(realCost, Int2Num(2))

suggestedPrice == Mul(realCost, Int2Num(3))

profit == Sub(suggestedPrice, realCost)

\* PanelShown without the test of the weight.
PanelShown_AnyWeight == selectedRecipeId # NoId

\* selectedRecipeId && weight > 0: the result card is rendered
PanelShown == selectedRecipeId # NoId /\ GtZero(weight)

CalculatorSnapshot ==
  /\ activeTab = "calc"
  /\ calcRecipes' = Snapshot(dbRecipes)
  /\ calcErrorMsg' = ""
  /\ effect' = NoEffect
  /\ UNCHANGED <<dbVars, activeTab, recipesVars, ingredientsVars,
                 selectedRecipeId, sellWeight, ticketVars>>

\* The options of the select: none, and the recipes of the list.
RecipeOptions == {NoId} \cup {calcRecipes[k].id : k \in 1..Len(calcRecipes)}

setSelectedRecipeId(value) ==
  /\ activeTab = "calc"
  /\ value \in RecipeOptions
  /\ selectedRecipeId' = value
  /\ effect' = NoEffect
  /\ UNCHANGED <<dbVars, activeTab, recipesVars, ingredientsVars,
                 calcRecipes, sellWeight, calcErrorMsg, ticketVars>>

\* The input is disabled while no recipe is selected.
setSellWeight(value) ==
  /\ activeTab = "calc"
  /\ selectedRecipeId # NoId
  /\ sellWeight' = value
  /\ effect' = NoEffect
  /\ UNCHANGED <<dbVars, activeTab, recipesVars, ingredientsVars,
                 calcRecipes, selectedRecipeId, calcErrorMsg, ticketVars>>

\* toLocaleString with no fraction digits: the number rounded to the
\* nearest integer, halves away from zero.  The digit grouping, which is
\* the browser locale's, is left out.
RoundedToUnits(x) ==
  IF x.d = 0 THEN x
  ELSE Int2Num(Sign(x.n) * ((2 * Abs(x.n) + x.d) \div (2 * x.d)))

\* name.replace(/\s+/g, '_')
RECURSIVE ReplaceSpaces(_)
ReplaceSpaces(s) ==
  IF s = <<>> THEN <<>>
  ELSE IF Head(s) = " "
  THEN <<"_">> \o ReplaceSpaces(SkipSpaces(s))
  ELSE <<Head(s)>> \o ReplaceSpaces(Tail(s))

\* What drawContent prints and saves for a request: the recipe's name, the
\* weight with " g" after it, the price, and the file's name.
drawContent(request, withLogo) ==
  [id       |-> request.id,
   withLogo |-> withLogo,
   name     |-> request.name,
   weight   |-> toString(request.weight) \o <<" ", "g">>,
   price    |-> RoundedToUnits(request.suggestedPrice),
   file     |-> ReplaceSpaces(request.name)
                  \o <<"_", "t", "i", "c", "k", "e", "t", ".", "p", "d", "f">>]

\* The button is part of the result card.  The request keeps the recipe,
\* weight and price of the render it was made in.
generateTicket ==
  /\ activeTab = "calc"
  /\ PanelShown
  /\ IF ~HasSelectedRecipe
     THEN /\ effect' = [op |-> "Calculator.generateTicket", outcome |-> "nothing"]
          /\ UNCHANGED ticketVars
     ELSE /\ nextTicketId <= MaxTickets
          /\ pendingTickets' = pendingTickets \cup
               {[id             |-> nextTicketId,
                 name           |-> selectedRecipe.name,
                 weight         |-> weight,
                 suggestedPrice |-> suggestedPrice]}
          /\ nextTicketId' = nextTicketId + 1
          /\ effect' = [op |-> "Calculator.generateTicket", outcome |-> "requested",
                        id |-> nextTicketId]
          /\ UNCHANGED savedTickets
  /\ UNCHANGED <<dbVars, activeTab, recipesVars, ingredientsVars,
                 calcRecipes, selectedRecipeId, sellWeight, calcErrorMsg>>

\* imgOnload leaving the request open, as if the image could still fail
\* after it has loaded.
imgOnload_StaysPending(request) ==
  /\ request \in pendingTickets
  /\ drawContent(request, TRUE) \notin savedTickets
  /\ savedTickets' = savedTickets \cup {drawContent(request, TRUE)}
  /\ effect' = [op |-> "img.onload", id |-> request.id]
  /\ UNCHANGED <<dbVars, activeTab, recipesVars, ingredientsVars,
                 calcRecipes, selectedRecipeId, sellWeight, calcErrorMsg,
                 pendingTickets, nextTicketId>>

\* img.onload: the logo is added and the ticket drawn below it.
imgOnload(request) ==
  /\ request \in pendingTickets
  /\ pendingTickets' = pendingTickets \ {request}
  /\ savedTickets' = savedTickets \cup {drawContent(request, TRUE)}
  /\ effect' = [op |-> "img.onload", id |-> request.id]
  /\ UNCHANGED <<dbVars, activeTab, recipesVars, ingredientsVars,
                 calcRecipes, selectedRecipeId, sellWeight, calcErrorMsg,
                 nextTicketId>>

\* img.onerror: the ticket is drawn without the logo.
imgOnerror(request) ==
  /\ request \in pendingTickets
  /\ pendingTickets' = pendingTickets \ {request}
  /\ savedTickets' = savedTickets \cup {drawContent(request, FALSE)}
  /\ effect' = [op |-> "img.onerror", id |-> request.id]
  /\ UNCHANGED <<dbVars, activeTab, recipesVars, ingredientsVars,
                 calcRecipes, selectedRecipeId, sellWeight, calcErrorMsg,
                 nextTicketId>>

(***************************************************************************)
(* src/App.tsx: Ingredients                                                *)
(***************************************************************************)
IngredientsSnapshot ==
  /\ activeTab = "inventory"
  /\ ingredients' = Snapshot(dbIngredients)
  /\ effect' = NoEffect
  /\ UNCHANGED <<dbVars, activeTab, recipesVars, calculatorVars,
                 ingName, ingUnit, ingPrice, ingEditingId, ingError>>

setName(value) ==
  /\ activeTab = "inventory"
  /\ ingName' = value
  /\ effect' = NoEffect
  /\ UNCHANGED <<dbVars, activeTab, recipesVars, calculatorVars,
                 ingredients, ingUnit, ingPrice, ingEditingId, ingError>>

setUnit(value) ==
  /\ activeTab = "inventory"
  /\ ingUnit' = value
  /\ effect' = NoEffect
  /\ UNCHANGED <<dbVars, activeTab, recipesVars, calculatorVars,
                 ingredients, ingName, ingPrice, ingEditingId, ingError>>

setPrice(value) ==
  /\ activeTab = "inventory"
  /\ ingPrice' = value
  /\ effect' = NoEffect
  /\ UNCHANGED <<dbVars, activeTab, recipesVars, calculatorVars,
                 ingredients, ingName, ingUnit, ingEditingId, ingError>>

IngredientsResetForm ==
  /\ ingName' = <<>>
  /\ ingUnit' = "Kg"
  /\ ingPrice' = <<>>
  /\ ingEditingId' = NoId
  /\ ingError' = ""

\* some(ing => ing.name.toLowerCase() === trimmedName.toLowerCase()
\*             && ing.id !== editingId)
NameExists(trimmedName) ==
  \E k \in 1..Len(ingredients) :
    /\ toLowerCase(ingredients[k].name) = toLowerCase(trimmedName)
    /\ ingredients[k].id # ingEditingId

ingredientData ==
  [name         |-> trim(ingName),
   unit         |-> ingUnit,
   pricePerUnit |-> parseFloat(ingPrice),
   userId       |-> userId]

\* ok: whether the store accepts the write.
IngredientsHandleSubmit(ok) ==
  /\ activeTab = "inventory"
  /\ IF trim(ingName) = <<>> \/ ingPrice = <<>>
     THEN /\ ingError' = ""
          /\ effect' = [op |-> "Ingredients.handleSubmit", outcome |-> "ignored"]
          /\ UNCHANGED <<dbVars, ingredients, ingName, ingUnit, ingPrice, ingEditingId>>
     ELSE IF NameExists(trim(ingName))
     THEN /\ ingError' = "Ya existe un ingrediente con ese nombre."
          /\ effect' = [op |-> "Ingredients.handleSubmit", outcome |-> "duplicate"]
          /\ UNCHANGED <<dbVars, ingredients, ingName, ingUnit, ingPrice, ingEditingId>>
     ELSE IF ingEditingId # NoId
     THEN IF ok /\ HasDoc(dbIngredients, ingEditingId)
          THEN /\ dbIngredients' = (dbIngredients \ {DocOf(dbIngredients, ingEditingId)})
                                     \cup {WithId(ingredientData, ingEditingId)}
               /\ ingredients' = AfterLocalSet(ingredients,
                                               WithId(ingredientData, ingEditingId))
               /\ effect' = [op |-> "Ingredients.handleSubmit", outcome |-> "saved",
                             call |-> "updateDoc", id |-> ingEditingId,
                             data |-> ingredientData]
               /\ IngredientsResetForm
               /\ UNCHANGED <<dbRecipes, nextIngredientId, nextRecipeId>>
          ELSE /\ ingError' = "Error al guardar."
               /\ effect' = [op |-> "Ingredients.handleSubmit", outcome |-> "failed",
                             call |-> "updateDoc", id |-> ingEditingId,
                             data |-> ingredientData]
               /\ UNCHANGED <<dbVars, ingredients, ingName, ingUnit, ingPrice,
                              ingEditingId>>
     ELSE IF ok
          THEN /\ nextIngredientId <= MaxIngredients
               /\ dbIngredients' = dbIngredients
                                     \cup {WithId(ingredientData, nextIngredientId)}
               /\ ingredients' = AfterLocalSet(ingredients,
                                               WithId(ingredientData, nextIngredientId))
               /\ nextIngredientId' = nextIngredientId + 1
               /\ effect' = [op |-> "Ingredients.handleSubmit", outcome |-> "saved",
                             call |-> "addDoc", id |-> nextIngredientId,
                             data |-> ingredientData]
               /\ IngredientsResetForm
               /\ UNCHANGED <<dbRecipes, nextRecipeId>>
          ELSE /\ ingError' = "Error al guardar."
               /\ effect' = [op |-> "Ingredients.handleSubmit", outcome |-> "failed",
                             call |-> "addDoc", id |-> NoId, data |-> ingredientData]
               /\ UNCHANGED <<dbVars, ingredients, ingName, ingUnit, ingPrice,
                              ingEditingId>>
  /\ UNCHANGED <<activeTab, recipesVars, calculatorVars>>

IngredientsHandleEdit(ing) ==
  /\ activeTab = "inventory"
  /\ \E k \in 1..Len(ingredients) : ingredients[k] = ing
  /\ ingName' = ing.name
  /\ ingUnit' = ing.unit
  /\ ingPrice' = toString(ing.pricePerUnit)
  /\ ingEditingId' = ing.id
  /\ effect' = NoEffect
  /\ UNCHANGED <<dbVars, activeTab, recipesVars, calculatorVars,
                 ingredients, ingError>>

IngredientsHandleDelete(id, confirmed, ok) ==
  /\ activeTab = "inventory"
  /\ \E k \in 1..Len(ingredients) : ingredients[k].id = id
  /\ IF ~confirmed
     THEN /\ effect' = NoEffect
          /\ UNCHANGED <<dbVars, ingError, ingredients>>
     ELSE IF ok
     THEN /\ dbIngredients' = {x \in dbIngredients : x.id # id}
          /\ ingredients' = AfterLocalDelete(ingredients, id)
          /\ effect' = [op |-> "Ingredients.handleDelete", outcome |-> "deleted",
                        call |-> "deleteDoc", id |-> id]
          /\ UNCHANGED <<dbRecipes, nextIngredientId, nextRecipeId, ingError>>
     ELSE /\ ingError' = "No se pudo eliminar. Permisos insuficientes."
          /\ effect' = [op |-> "Ingredients.handleDelete", outcome |-> "failed",
                        call |-> "deleteDoc", id |-> id]
          /\ UNCHANGED <<dbVars, ingredients>>
  /\ UNCHANGED <<activeTab, recipesVars, calculatorVars,
                 ingName, ingUnit, ingPrice, ingEditingId>>

\* The Cancelar button, shown while an ingredient is being edited.
IngredientsCancelEdit ==
  /\ activeTab = "inventory"
  /\ ingEditingId # NoId
  /\ IngredientsResetForm
  /\ effect' = NoEffect
  /\ UNCHANGED <<dbVars, activeTab, recipesVars, calculatorVars, ingredients>>

(***************************************************************************)
(* src/App.tsx: App                                                        *)
(***************************************************************************)
\* The state each component is constructed with (useState's arguments).
RecipesInitial ==
  /\ availableIngredients = <<>>
  /\ savedRecipes = <<>>
  /\ recipeName = <<>>
  /\ ingredientsList = <<>>
  /\ totalYield = <<>>
  /\ editingId = NoId
  /\ errorMsg = ""

IngredientsInitial ==
  /\ ingredients = <<>>
  /\ ingName = <<>>
  /\ ingUnit = "Kg"
  /\ ingPrice = <<>>
  /\ ingEditingId = NoId
  /\ ingError = ""

CalculatorInitial ==
  /\ calcRecipes = <<>>
  /\ selectedRecipeId = NoId
  /\ sellWeight = <<>>
  /\ calcErrorMsg = ""

\* No ticket has been requested.
TicketsInitial ==
  /\ pendingTickets = {}
  /\ savedTickets = {}
  /\ nextTicketId = 1

\* Only the component of the active tab is rendered: the one left is
\* unmounted and loses its state, the one entered is constructed (the
\* initial values are those the two resetForm set, and empty lists).
setActiveTab(tab) ==
  /\ tab # activeTab
  /\ activeTab' = tab
  /\ availableIngredients' = <<>>
  /\ savedRecipes' = <<>>
  /\ resetForm
  /\ ingredients' = <<>>
  /\ IngredientsResetForm
  /\ calcRecipes' = <<>>
  /\ selectedRecipeId' = NoId
  /\ sellWeight' = <<>>
  /\ calcErrorMsg' = ""
  /\ effect' = NoEffect
  /\ UNCHANGED <<dbVars, ticketVars>>

(***************************************************************************)
(* Another session of the same account, writing to the same store          *)
(***************************************************************************)
OtherSessionDeletesIngredient(id) ==
  /\ HasDoc(dbIngredients, id)
  /\ dbIngredients' = {x \in dbIngredients : x.id # id}
  /\ effect' = NoEffect
  /\ UNCHANGED <<dbRecipes, nextIngredientId, nextRecipeId, activeTab,
                 recipesVars, ingredientsVars, calculatorVars>>

OtherSessionDeletesRecipe(id) ==
  /\ HasDoc(dbRecipes, id)
  /\ dbRecipes' = {x \in dbRecipes : x.id # id}
  /\ effect' = NoEffect
  /\ UNCHANGED <<dbIngredients, nextIngredientId, nextRecipeId, activeTab,
                 recipesVars, ingredientsVars, calculatorVars>>

OtherSessionSetsPrice(id, value) ==
  /\ HasDoc(dbIngredients, id)
  /\ dbIngredients' = (dbIngredients \ {DocOf(dbIngredients, id)})
       \cup {[DocOf(dbIngredients, id) EXCEPT !.pricePerUnit = parseFloat(value)]}
  /\ effect' = NoEffect
  /\ UNCHANGED <<dbRecipes, nextIngredientId, nextRecipeId, activeTab,
                 recipesVars, ingredientsVars, calculatorVars>>

(***************************************************************************)
(* The recipes screen: a signed-in account that holds two ingredients,     *)
(* with the Recetas tab just opened and no other session writing.          *)
(***************************************************************************)
T20000 == <<"2", "0", "0", "0", "0">>

HarinaDoc == [id |-> 1, userId |-> userId, name |-> Harina, unit |-> "Kg",
              pricePerUnit |-> parseFloat(T10000)]

HuevoDoc == [id |-> 2, userId |-> userId, name |-> Huevo, unit |-> "Un",
             pricePerUnit |-> parseFloat(T5)]

Init ==
  /\ dbIngredients = {HarinaDoc, HuevoDoc}
  /\ dbRecipes = {}
  /\ nextIngredientId = 3
  /\ nextRecipeId = 1
  /\ activeTab = "recipes"
  /\ RecipesInitial
  /\ IngredientsInitial
  /\ CalculatorInitial
  /\ TicketsInitial
  /\ effect = NoEffect

Next ==
  \/ RecipesIngredientsSnapshot
  \/ RecipesRecipesSnapshot
  \/ \E value \in {Torta} : setRecipeName(value)
  \/ \E value \in {T0, T1000} : setTotalYield(value)
  \/ addIngredientRow
  \/ \E index \in 1..Len(ingredientsList) : removeIngredientRow(index)
  \/ \E index \in 1..Len(ingredientsList), value \in IngredientOptions :
       handleRowChange(index, "ingredientId", value)
  \/ \E index \in 1..Len(ingredientsList), value \in {T200p0} :
       handleRowChange(index, "quantityUsed", value)
  \/ \E ok \in BOOLEAN : handleSubmit(ok)
  \/ \E k \in 1..Len(savedRecipes) : handleEdit(savedRecipes[k])
  \/ \E k \in 1..Len(savedRecipes), confirmed, ok \in BOOLEAN :
       handleDelete(savedRecipes[k].id, confirmed, ok)
  \/ cancelEdit

Spec == Init /\ [][Next]_vars

(***************************************************************************)
(* The recipes screen while another session of the account deletes         *)
(* ingredients: a new recipe is filled in and submitted.                   *)
(***************************************************************************)
NextOtherSession ==
  \/ RecipesIngredientsSnapshot
  \/ RecipesRecipesSnapshot
  \/ \E value \in {Torta} : setRecipeName(value)
  \/ \E value \in {T1000} : setTotalYield(value)
  \/ addIngredientRow
  \/ \E index \in 1..Len(ingredientsList) : removeIngredientRow(index)
  \/ \E index \in 1..Len(ingredientsList), value \in IngredientOptions :
       handleRowChange(index, "ingredientId", value)
  \/ \E index \in 1..Len(ingredientsList), value \in {T200p0} :
       handleRowChange(index, "quantityUsed", value)
  \/ \E ok \in BOOLEAN : handleSubmit(ok)
  \/ \E id \in {1, 2} : OtherSessionDeletesIngredient(id)

SpecOtherSession == Init /\ [][NextOtherSession]_vars

(***************************************************************************)
(* The recipes screen over one stored ingredient of any unit, a value      *)
(* outside the Unit enumeration included (the snapshot casts what the      *)
(* store holds to Ingredient without checking it).                         *)
(***************************************************************************)
AnyUnit == Unit \cup {"Xx"}

InitUnits ==
  /\ \E u \in AnyUnit, p \in {T5, T10000} :
       dbIngredients = {[id |-> 1, userId |-> userId, name |-> Harina,
                         unit |-> u, pricePerUnit |-> parseFloat(p)]}
  /\ dbRecipes = {}
  /\ nextIngredientId = 2
  /\ nextRecipeId = 1
  /\ activeTab = "recipes"
  /\ RecipesInitial
  /\ IngredientsInitial
  /\ CalculatorInitial
  /\ TicketsInitial
  /\ effect = NoEffect

NextUnits ==
  \/ RecipesIngredientsSnapshot
  \/ addIngredientRow
  \/ \E index \in 1..Len(ingredientsList) : removeIngredientRow(index)
  \/ \E index \in 1..Len(ingredientsList), value \in IngredientOptions :
       handleRowChange(index, "ingredientId", value)
  \/ \E index \in 1..Len(ingredientsList), value \in {T3, T100, T200} :
       handleRowChange(index, "quantityUsed", value)

SpecUnits == InitUnits /\ [][NextUnits]_vars

(***************************************************************************)
(* The inventory and sale screens: the account holds one ingredient and    *)
(* the recipe saved from two rows of 200 g of it with a yield of 1000;     *)
(* the user moves between the Insumos and Ventas tabs, and another         *)
(* session of the account writes ingredients too.                          *)
(***************************************************************************)
TortaDoc ==
  [id |-> 1, userId |-> userId, name |-> Torta,
   ingredients |-> <<[ingredientId |-> 1, quantityUsed |-> Int2Num(200),
                      calculatedCost |-> Int2Num(2000)],
                     [ingredientId |-> 1, quantityUsed |-> Int2Num(200),
                      calculatedCost |-> Int2Num(2000)]>>,
   totalYieldWeight |-> Int2Num(1000),
   totalCost |-> Int2Num(4000),
   costPerGram |-> Int2Num(4)]

InitInventory ==
  /\ dbIngredients = {HarinaDoc}
  /\ dbRecipes = {TortaDoc}
  /\ nextIngredientId = 2
  /\ nextRecipeId = 2
  /\ activeTab = "inventory"
  /\ RecipesInitial
  /\ IngredientsInitial
  /\ CalculatorInitial
  /\ TicketsInitial
  /\ effect = NoEffect

NextInventory ==
  \/ \E tab \in {"inventory", "calc"} : setActiveTab(tab)
  \/ IngredientsSnapshot
  \/ \E value \in {Harina, Huevo} : setName(value)
  \/ \E value \in {"Un"} : setUnit(value)
  \/ \E value \in {T5} : setPrice(value)
  \/ \E ok \in BOOLEAN : IngredientsHandleSubmit(ok)
  \/ \E k \in 1..Len(ingredients) : IngredientsHandleEdit(ingredients[k])
  \/ \E k \in 1..Len(ingredients), confirmed, ok \in BOOLEAN :
       IngredientsHandleDelete(ingredients[k].id, confirmed, ok)
  \/ IngredientsCancelEdit
  \/ CalculatorSnapshot
  \/ \E value \in RecipeOptions : setSelectedRecipeId(value)
  \/ \E value \in {T0, T100} : setSellWeight(value)
  \/ \E id \in 1..MaxIngredients : OtherSessionDeletesIngredient(id)
  \/ OtherSessionSetsPrice(1, T20000)

SpecInventory == InitInventory /\ [][NextInventory]_vars

(***************************************************************************)
(* The inventory screen over an empty store: ingredients are typed in,     *)
(* saved, edited and deleted.  The name is a text input, the price a       *)
(* number input with step 0.01 and no minimum.                             *)
(***************************************************************************)
HarinaSpaced == <<" ", "H", "a", "r", "i", "n", "a", " ">>

Spaces == <<" ", " ">>

TMinus5 == <<"-", "5">>

InitIngredientForm ==
  /\ dbIngredients = {}
  /\ dbRecipes = {}
  /\ nextIngredientId = 1
  /\ nextRecipeId = 1
  /\ activeTab = "inventory"
  /\ RecipesInitial
  /\ IngredientsInitial
  /\ CalculatorInitial
  /\ TicketsInitial
  /\ effect = NoEffect

NextIngredientForm ==
  \/ IngredientsSnapshot
  \/ \E value \in {Harina, HarinaSpaced, Spaces} : setName(value)
  \/ \E value \in {"Lt"} : setUnit(value)
  \/ \E value \in {T2p50, TMinus5} : setPrice(value)
  \/ \E ok \in BOOLEAN : IngredientsHandleSubmit(ok)
  \/ \E k \in 1..Len(ingredients) : IngredientsHandleEdit(ingredients[k])
  \/ \E k \in 1..Len(ingredients), confirmed, ok \in BOOLEAN :
       IngredientsHandleDelete(ingredients[k].id, confirmed, ok)
  \/ IngredientsCancelEdit

SpecIngredientForm == InitIngredientForm /\ [][NextIngredientForm]_vars

(***************************************************************************)
(* The sale screen: the account holds the recipe saved at 4 per gram; a    *)
(* weight is typed (the number input lets through the empty text, zero,    *)
(* negative and fractional numbers), tickets are requested, and another    *)
(* session may delete the recipe.                                          *)
(***************************************************************************)
InitCalculator ==
  /\ dbIngredients = {HarinaDoc}
  /\ dbRecipes = {TortaDoc}
  /\ nextIngredientId = 2
  /\ nextRecipeId = 2
  /\ activeTab = "calc"
  /\ RecipesInitial
  /\ IngredientsInitial
  /\ CalculatorInitial
  /\ TicketsInitial
  /\ effect = NoEffect

\* The logo of a pending request loads or fails.
ImageSettles ==
  \E request \in pendingTickets : imgOnload(request) \/ imgOnerror(request)

NextCalculator ==
  \/ CalculatorSnapshot
  \/ \E value \in RecipeOptions : setSelectedRecipeId(value)
  \/ \E value \in {<<>>, T0, TMinus5, T100, T2p50} : setSellWeight(value)
  \/ generateTicket
  \/ \E request \in pendingTickets : imgOnload(request)
  \/ \E request \in pendingTickets : imgOnerror(request)
  \/ \E id \in 1..MaxRecipes : OtherSessionDeletesRecipe(id)

SpecCalculator == InitCalculator /\ [][NextCalculator]_vars

\* The browser raises load or error for every image whose src was set.
SpecCalculatorFair == SpecCalculator /\ WF_vars(ImageSettles)

(***************************************************************************)
(* The three screens over a store that may refuse any write and that      *)
(* holds the records of a second account too: the account signed in holds *)
(* one ingredient and one recipe; ingredients and recipes are added,       *)
(* edited and deleted.                                                     *)
(***************************************************************************)
OtherHarinaDoc == [HarinaDoc EXCEPT !.id = 8, !.userId = "u2"]

OtherTortaDoc == [TortaDoc EXCEPT !.id = 9, !.userId = "u2"]

InitStoreFailures ==
  /\ dbIngredients = {HarinaDoc, OtherHarinaDoc}
  /\ dbRecipes = {TortaDoc, OtherTortaDoc}
  /\ nextIngredientId = 2
  /\ nextRecipeId = 2
  /\ activeTab = "inventory"
  /\ RecipesInitial
  /\ IngredientsInitial
  /\ CalculatorInitial
  /\ TicketsInitial
  /\ effect = NoEffect

NextStoreFailures ==
  \/ \E tab \in {"inventory", "recipes", "calc"} : setActiveTab(tab)
  \/ CalculatorSnapshot
  \/ \E value \in RecipeOptions : setSelectedRecipeId(value)
  \/ IngredientsSnapshot
  \/ \E value \in {Huevo} : setName(value)
  \/ \E value \in {T5} : setPrice(value)
  \/ \E ok \in BOOLEAN : IngredientsHandleSubmit(ok)
  \/ \E k \in 1..Len(ingredients) : IngredientsHandleEdit(ingredients[k])
  \/ \E k \in 1..Len(ingredients), confirmed, ok \in BOOLEAN :
       IngredientsHandleDelete(ingredients[k].id, confirmed, ok)
  \/ RecipesIngredientsSnapshot
  \/ RecipesRecipesSnapshot
  \/ \E value \in {Torta} : setRecipeName(value)
  \/ \E value \in {T1000} : setTotalYield(value)
  \/ addIngredientRow
  \/ \E index \in 1..Len(ingredientsList), value \in IngredientOptions \ {NoId} :
       handleRowChange(index, "ingredientId", value)
  \/ \E index \in 1..Len(ingredientsList), value \in {T200} :
       handleRowChange(index, "quantityUsed", value)
  \/ \E ok \in BOOLEAN : handleSubmit(ok)
  \/ \E k \in 1..Len(savedRecipes) : handleEdit(savedRecipes[k])
  \/ \E k \in 1..Len(savedRecipes), confirmed, ok \in BOOLEAN :
       handleDelete(savedRecipes[k].id, confirmed, ok)

SpecStoreFailures == InitStoreFailures /\ [][NextStoreFailures]_vars

(***************************************************************************)
(* The recipes screen of an account that already holds two recipes: they  *)
(* are loaded into the form, saved again and deleted, and new ones are    *)
(* created beside them.                                                    *)
(***************************************************************************)
Pan == <<"p", "a", "n">>

TortaStored == [TortaDoc EXCEPT !.id = 6]

PanStored == [TortaDoc EXCEPT !.id = 7, !.name = Pan]

InitRecipeList ==
  /\ dbIngredients = {HarinaDoc}
  /\ dbRecipes = {TortaStored, PanStored}
  /\ nextIngredientId = 2
  /\ nextRecipeId = 1
  /\ activeTab = "recipes"
  /\ RecipesInitial
  /\ IngredientsInitial
  /\ CalculatorInitial
  /\ TicketsInitial
  /\ effect = NoEffect

NextRecipeList ==
  \/ RecipesIngredientsSnapshot
  \/ RecipesRecipesSnapshot
  \/ \E value \in {Torta} : setRecipeName(value)
  \/ \E value \in {T1000} : setTotalYield(value)
  \/ addIngredientRow
  \/ \E index \in 1..Len(ingredientsList), value \in IngredientOptions \ {NoId} :
       handleRowChange(index, "ingredientId", value)
  \/ \E index \in 1..Len(ingredientsList), value \in {T200} :
       handleRowChange(index, "quantityUsed", value)
  \/ \E ok \in BOOLEAN : handleSubmit(ok)
  \/ \E k \in 1..Len(savedRecipes) : handleEdit(savedRecipes[k])
  \/ \E k \in 1..Len(savedRecipes), confirmed, ok \in BOOLEAN :
       handleDelete(savedRecipes[k].id, confirmed, ok)
  \/ cancelEdit

SpecRecipeList == InitRecipeList /\ [][NextRecipeList]_vars

(***************************************************************************)
(* Properties                                                              *)
(*                                                                         *)
(* The numbers below are written over numerators and denominators, apart   *)
(* from the operators the handlers are modelled with, so that a property   *)
(* compares what the handler computes with a sum worked out separately.    *)
(***************************************************************************)
\* Usage units in one purchase unit: a kilogram is bought and grams are
\* used, a litre is bought and millilitres are used.
UsageUnitsPer(u) == IF u \in {"Kg", "Lt"} THEN 1000 ELSE 1

IsFinite(x) == x.d # 0

\* price / factor * qty as one fraction
UsageCost(price, factor, qty) == Num(price.n * qty.n, price.d * factor * qty.d)

\* What a form row is to contribute to the total: its usage cost, and
\* nothing if its ingredient is not in the list or its quantity is no number.
ExpectedRowCost(row, available) ==
  LET qty == parseFloat(row.quantityUsed)
  IN  IF \/ \A k \in 1..Len(available) : available[k].id # row.ingredientId
         \/ ~IsFinite(qty)
      THEN Int2Num(0)
      ELSE LET ing == available[CHOOSE k \in 1..Len(available) :
                                  available[k].id = row.ingredientId]
           IN  UsageCost(ing.pricePerUnit, UsageUnitsPer(ing.unit), qty)

ExpectedTotal(rows, available) ==
  LET sum[k \in 0..Len(rows)] ==
        IF k = 0 THEN Int2Num(0)
        ELSE LET a == sum[k - 1]
                 b == ExpectedRowCost(rows[k], available)
             IN  Num(a.n * b.d + b.n * a.d, a.d * b.d)
  IN  sum[Len(rows)]

SubmitWrote == effect.op = "Recipes.handleSubmit" /\ effect.outcome = "saved"

\* The step is a submit of the recipe form.
SubmitStep == effect'.op = "Recipes.handleSubmit"

----------------------------------------------------------------------------
\* C1: in every state of the recipe form the total cost computed is the sum
\* over the rows of (pricePerUnit / conversion factor) * quantity used, and
\* the record a submit builds carries that total and, as cost per gram, the
\* total divided by the yield.  A Kg ingredient at 10000 used at 200 costs
\* 2000, an Un ingredient at 5 used at 3 costs 15, and two rows of the
\* former with a yield of 1000 total 4000, 4 per gram.
C1_TotalCostIsSumOfUsageCosts ==
  /\ [](/\ calculateTotalCost = ExpectedTotal(ingredientsList, availableIngredients)
        /\ rowCost(HarinaDoc, parseFloat(T200)) = Int2Num(2000)
        /\ rowCost(HuevoDoc, parseFloat(T3)) = Int2Num(15)
        /\ (/\ Len(ingredientsList) = 2
            /\ \A k \in 1..2 : ingredientsList[k] =
                 [ingredientId |-> HarinaDoc.id, quantityUsed |-> T200p0]
            /\ Resolves(availableIngredients, HarinaDoc.id))
           => calculateTotalCost = Int2Num(4000))
  /\ [][(SubmitStep /\ effect'.outcome \in {"saved", "failed"}) =>
          LET total == ExpectedTotal(ingredientsList, availableIngredients)
              yield == parseFloat(totalYield)
          IN  /\ effect'.data.totalCost = total
              /\ effect'.data.costPerGram =
                   Num(total.n * yield.d, total.d * yield.n)]_vars

\* A recipe of two rows of 200 g of the Kg ingredient and a yield of 1000
\* has been saved with a total of 4000 and 4 per gram.
C1_Witness ==
  /\ SubmitWrote
  /\ Len(effect.data.ingredients) = 2
  /\ effect.data.totalCost = Int2Num(4000)
  /\ effect.data.costPerGram = Int2Num(4)

----------------------------------------------------------------------------
\* The calculatedCost fields of the rows, added as JavaScript adds them.
SumOfCalculatedCost(rows) ==
  LET sum[k \in 0..Len(rows)] ==
        IF k = 0 THEN Int2Num(0) ELSE Add(sum[k - 1], rows[k].calculatedCost)
  IN  sum[Len(rows)]

----------------------------------------------------------------------------
\* C3: for the recipe selected and the weight entered, the real cost is the
\* cost per gram times the weight, the suggested price is three times the
\* real cost and the profit is their difference, twice the real cost; a
\* cost per gram of 4 and a weight of 100 give 400, 1200 and 800.
C3_SalePricing ==
  HasSelectedRecipe =>
    LET c    == selectedRecipe.costPerGram
        cost == Num(c.n * weight.n, c.d * weight.d)
    IN  /\ realCost = cost
        /\ suggestedPrice = Num(3 * cost.n, cost.d)
        /\ profit = Num(suggestedPrice.n * realCost.d - realCost.n * suggestedPrice.d,
                        suggestedPrice.d * realCost.d)
        /\ profit = Num(2 * cost.n, cost.d)
        /\ (c = Int2Num(4) /\ weight = Int2Num(100)) =>
             /\ realCost = Int2Num(400)
             /\ suggestedPrice = Int2Num(1200)
             /\ profit = Int2Num(800)

\* The sale panel shows the recipe at 4 per gram sold at 100 g.
C3_Witness ==
  /\ activeTab = "calc"
  /\ PanelShown
  /\ selectedRecipe.costPerGram = Int2Num(4)
  /\ weight = Int2Num(100)
  /\ suggestedPrice = Int2Num(1200)

----------------------------------------------------------------------------
\* C4: getConversionFactor gives a positive factor for every unit an
\* ingredient can carry: 1000 for Kg and Lt, 1 for Gr and Un, and 1 for a
\* value outside the enumeration, whose rows are costed at the purchase
\* price as they stand.
C4_ConversionFactorTotalAndPositive ==
  /\ \A u \in AnyUnit :
       /\ getConversionFactor(u) > 0
       /\ getConversionFactor(u) = UsageUnitsPer(u)
  /\ \A k \in 1..Len(availableIngredients) :
       LET ing == availableIngredients[k]
       IN  /\ getConversionFactor(ing.unit) \in {1, 1000}
           /\ ing.unit \notin Unit => getConversionFactor(ing.unit) = 1
           /\ \A j \in 1..Len(ingredientsList) :
                (/\ Len(ingredientsList) = 1
                 /\ ingredientsList[j].ingredientId = ing.id
                 /\ IsFinite(parseFloat(ingredientsList[j].quantityUsed))
                 /\ ing.unit \notin {"Kg", "Lt"})
                => calculateTotalCost =
                     UsageCost(ing.pricePerUnit, 1,
                               parseFloat(ingredientsList[j].quantityUsed))

\* A row uses 3 of an ingredient whose unit is outside the enumeration and
\* the total is 3 times its price.
C4_Witness ==
  /\ Len(availableIngredients) = 1
  /\ availableIngredients[1].unit \notin Unit
  /\ availableIngredients[1].pricePerUnit = Int2Num(5)
  /\ ingredientsList = <<[ingredientId |-> availableIngredients[1].id,
                          quantityUsed |-> T3]>>
  /\ calculateTotalCost = Int2Num(15)

----------------------------------------------------------------------------
\* The row refers to an ingredient that is not in the list.
Unresolved(row) ==
  \A k \in 1..Len(availableIngredients) :
    availableIngredients[k].id # row.ingredientId

\* list without its k-th element
WithoutRow(list, k) == SubSeq(list, 1, k - 1) \o SubSeq(list, k + 1, Len(list))

\* C5: a row of the form whose ingredient is not in the current list adds
\* nothing to the total computed: the total is a number, and it is the
\* total of the form with that row taken out.
C5_UnresolvedRowContributesZero ==
  \A k \in 1..Len(ingredientsList) :
    Unresolved(ingredientsList[k]) =>
      /\ IsFinite(calculateTotalCost)
      /\ calculateTotalCost =
           ExpectedTotal(WithoutRow(ingredientsList, k), availableIngredients)
      /\ calculateTotalCost =
           TotalFrom(WithoutRow(ingredientsList, k), availableIngredients, Int2Num(0))

\* The first row refers to the ingredient another session deleted, with a
\* quantity entered, and the second to one still listed: the total is the
\* cost of the second.
C5_Witness ==
  /\ Len(ingredientsList) = 2
  /\ ingredientsList[1] = [ingredientId |-> HuevoDoc.id, quantityUsed |-> T200p0]
  /\ ingredientsList[2] = [ingredientId |-> HarinaDoc.id, quantityUsed |-> T200p0]
  /\ availableIngredients = <<HarinaDoc>>
  /\ calculateTotalCost = Int2Num(2000)

----------------------------------------------------------------------------
\* The form passes handleSubmit's validation, every row names an
\* ingredient, and one of them is no longer in the list.
ValidFormWithRemovedIngredient ==
  /\ recipeName # <<>>
  /\ Len(ingredientsList) > 0
  /\ GtZero(parseFloat(totalYield))
  /\ \A k \in 1..Len(ingredientsList) : ingredientsList[k].ingredientId # NoId
  /\ \E k \in 1..Len(ingredientsList) : Unresolved(ingredientsList[k])

\* C6: submitting a form one of whose rows refers to an ingredient that a
\* snapshot has removed does not end in an exception: the handler reaches
\* the write.
C6_SubmitWithRemovedIngredientCompletes ==
  (effect.op = "Recipes.handleSubmit" /\ ValidFormWithRemovedIngredient)
    => effect.outcome # "TypeError"

----------------------------------------------------------------------------
\* The form is one the validation is to refuse: no name, no rows, or a
\* yield that is not a positive finite number.
MustBeRejected ==
  LET yield == parseFloat(totalYield)
  IN  \/ Len(recipeName) = 0
      \/ ingredientsList = <<>>
      \/ ~(yield.d > 0 /\ yield.n > 0)

\* C7: a submit of a form with no name, no rows or a yield that is not a
\* positive finite number raises the alert, sends no write to the store
\* and leaves the form as it was.
C7_InvalidFormIsRejected ==
  [][(SubmitStep /\ MustBeRejected) =>
       /\ effect'.outcome = "alert"
       /\ dbRecipes' = dbRecipes
       /\ savedRecipes' = savedRecipes
       /\ formVars' = formVars]_vars

\* A form with a name, a row and a yield of 0 was submitted and refused.
C7_Witness ==
  /\ effect.op = "Recipes.handleSubmit"
  /\ effect.outcome = "alert"
  /\ recipeName = Torta
  /\ Len(ingredientsList) > 0
  /\ totalYield = T0

----------------------------------------------------------------------------
----------------------------------------------------------------------------
\* C9: whatever is added to, edited in or deleted from the ingredients, by
\* this session or another, the stored recipe keeps the costs it was saved
\* with, and the sale calculator prices it from them: 4 per gram, so 12
\* times the weight sold.
C9_SavedCostsAreFrozen ==
  /\ dbRecipes = {TortaDoc}
  /\ \A k \in 1..Len(calcRecipes) : calcRecipes[k] = TortaDoc
  /\ HasSelectedRecipe =>
       /\ costPerGram = Int2Num(4)
       /\ suggestedPrice = Num(12 * weight.n, weight.d)

\* The ingredient the recipe was costed with has been repriced or deleted,
\* and the sale panel shows the recipe sold at 100 g for 1200.
C9_Witness ==
  /\ HarinaDoc \notin dbIngredients
  /\ activeTab = "calc"
  /\ PanelShown
  /\ weight = Int2Num(100)
  /\ suggestedPrice = Int2Num(1200)

----------------------------------------------------------------------------
\* The form holds the stored recipe being edited as handleEdit loads it.
LoadedUnchanged ==
  /\ editingId # NoId
  /\ HasDoc(dbRecipes, editingId)
  /\ LET recipe == DocOf(dbRecipes, editingId)
     IN  /\ recipeName = recipe.name
         /\ totalYield = toString(recipe.totalYieldWeight)
         /\ ingredientsList = localIngredients(recipe)

\* C10: submitting a recipe loaded by handleEdit and not changed, over the
\* same ingredients, leaves the stored record as it was: an update that
\* writes the ingredients, totalYieldWeight, totalCost and costPerGram the
\* record had, every time it is repeated.
C10_ResaveWritesTheSameRecord ==
  [][(SubmitStep /\ LoadedUnchanged /\ availableIngredients = Snapshot(dbIngredients)) =>
       LET recipe == DocOf(dbRecipes, editingId)
       IN  /\ effect'.outcome \in {"saved", "failed"}
           /\ effect'.call = "updateDoc"
           /\ effect'.data.ingredients = recipe.ingredients
           /\ effect'.data.totalYieldWeight = recipe.totalYieldWeight
           /\ effect'.data.totalCost = recipe.totalCost
           /\ effect'.data.costPerGram = recipe.costPerGram
           /\ dbRecipes' = dbRecipes]_vars

\* The recipe typed with quantities "200.0" was saved, loaded again, which
\* shows them as "200", saved a second time, and the store holds it as
\* first written.
C10_Witness ==
  /\ SubmitWrote
  /\ effect.call = "updateDoc"
  /\ effect.data.totalCost = Int2Num(4000)
  /\ dbRecipes = {TortaDoc}

----------------------------------------------------------------------------
\* C11: the store never holds two ingredients of the account whose trimmed
\* names are equal when case is ignored.
C11_IngredientNamesAreUnique ==
  \A x, y \in dbIngredients :
    (/\ x.userId = y.userId
     /\ toLowerCase(trim(x.name)) = toLowerCase(trim(y.name)))
    => x.id = y.id

----------------------------------------------------------------------------
\* C12: every ingredient record the add or edit operation writes has a
\* name that is not empty and a pricePerUnit that is a number and is not
\* negative; so has every ingredient the store holds.
C12_WrittenIngredientIsValid ==
  LET Valid(x) == /\ x.name # <<>>
                  /\ x.pricePerUnit.d > 0
                  /\ x.pricePerUnit.n >= 0
  IN  /\ (effect.op = "Ingredients.handleSubmit" /\ effect.outcome = "saved")
           => Valid(effect.data)
      /\ \A x \in dbIngredients : Valid(x)

----------------------------------------------------------------------------
\* C13: the result card of the sale calculator is shown exactly when a
\* recipe is selected and the weight typed parses to a number greater than
\* 0: with an empty, non-numeric, zero or negative weight there is no card,
\* and the weight computed with is then a number all the same (0 when the
\* text is no number).
C13_NoPanelWithoutPositiveQuantity ==
  LET typed    == parseFloat(sellWeight)
      positive == typed.d > 0 /\ typed.n > 0
  IN  /\ ~positive => ~PanelShown
      /\ PanelShown <=> (selectedRecipeId # NoId /\ positive)
      /\ IsFinite(weight) /\ IsFinite(realCost) /\ IsFinite(suggestedPrice)
      /\ (sellWeight = <<>> \/ isNaN(typed)) => weight = Int2Num(0)

\* A recipe is selected and the weight typed is -5: the costs computed are
\* negative and no card is shown.
C13_Witness ==
  /\ activeTab = "calc"
  /\ HasSelectedRecipe
  /\ sellWeight = TMinus5
  /\ weight = Int2Num(-5)
  /\ suggestedPrice = Int2Num(-60)
  /\ ~PanelShown

----------------------------------------------------------------------------
\* C14: the cost of a row is linear in its quantity: for every ingredient
\* of the list and every quantity typed, the cost at twice the quantity is
\* twice the cost, the cost at 0 is 0, and a form of one row at 200 totals
\* twice what it totals with the row at 100.
C14_UsageCostIsLinear ==
  /\ \A k \in 1..Len(availableIngredients), text \in {T3, T100, T200, T2p50} :
       LET ing    == availableIngredients[k]
           q      == parseFloat(text)
           once   == rowCost(ing, q)
           double == rowCost(ing, Num(2 * q.n, q.d))
       IN  /\ IsFinite(once) /\ IsFinite(double)
           /\ double.n * once.d = 2 * once.n * double.d
           /\ rowCost(ing, Int2Num(0)) = Int2Num(0)
  /\ \A j \in 1..Len(ingredientsList) :
       (/\ Len(ingredientsList) = 1
        /\ ingredientsList[j].quantityUsed = T200
        /\ Resolves(availableIngredients, ingredientsList[j].ingredientId))
       => LET half == TotalFrom(<<[ingredientsList[j] EXCEPT !.quantityUsed = T100]>>,
                                availableIngredients, Int2Num(0))
          IN  calculateTotalCost = Num(2 * half.n, half.d)

\* A row at 100 and a row at 200 of the Kg ingredient priced 10000: 1000
\* and 2000, 3000 in all.
C14_Witness ==
  /\ Len(availableIngredients) = 1
  /\ availableIngredients[1].unit = "Kg"
  /\ availableIngredients[1].pricePerUnit = Int2Num(10000)
  /\ ingredientsList = <<[ingredientId |-> availableIngredients[1].id,
                          quantityUsed |-> T100],
                         [ingredientId |-> availableIngredients[1].id,
                          quantityUsed |-> T200]>>
  /\ calculateTotalCost = Int2Num(3000)

----------------------------------------------------------------------------
\* The step is a create, update or delete that the store refused.
WriteRefusedStep ==
  \/ effect'.op \in {"Recipes.handleSubmit", "Ingredients.handleSubmit",
                     "Ingredients.handleDelete"}
       /\ effect'.outcome = "failed"
  \/ effect'.op = "Recipes.handleDelete" /\ effect'.outcome = "alert"

\* C15: when the store refuses a create, update or delete, the user is
\* told (the screen's error message is set, or an alert is raised for a
\* recipe delete), the call is made once and the store is as it was, and
\* the form fields, the editing id and the loaded lists of both screens
\* are as they were before the attempt.
C15_RefusedWriteLeavesStateIntact ==
  [][WriteRefusedStep =>
       /\ effect'.call \in {"addDoc", "updateDoc", "deleteDoc"}
       /\ dbIngredients' = dbIngredients /\ dbRecipes' = dbRecipes
       /\ <<recipeName, ingredientsList, totalYield, editingId>>'
            = <<recipeName, ingredientsList, totalYield, editingId>>
       /\ <<availableIngredients, savedRecipes>>' = <<availableIngredients, savedRecipes>>
       /\ <<ingName, ingUnit, ingPrice, ingEditingId, ingredients>>'
            = <<ingName, ingUnit, ingPrice, ingEditingId, ingredients>>
       /\ effect'.op = "Recipes.handleSubmit" => errorMsg' # ""
       /\ effect'.op \in {"Ingredients.handleSubmit", "Ingredients.handleDelete"}
            => ingError' # ""]_vars

\* The update of the recipe loaded in the form was refused: the message is
\* shown and the form still holds the recipe.
C15_Witness ==
  /\ effect.op = "Recipes.handleSubmit"
  /\ effect.outcome = "failed"
  /\ effect.call = "updateDoc"
  /\ errorMsg # ""
  /\ editingId = TortaDoc.id
  /\ recipeName = Torta
  /\ Len(ingredientsList) = 2
  /\ TortaDoc \in dbRecipes

----------------------------------------------------------------------------
\* C16: the lists the three screens hold contain only records of the
\* account signed in, so only those can be edited, deleted or priced;
\* every record a submit writes carries that account's userId; and the
\* records of the other account stay in the store as they were.
C16_ScopedByOwner ==
  /\ \A list \in {availableIngredients, savedRecipes, ingredients, calcRecipes} :
       \A k \in 1..Len(list) : list[k].userId = userId
  /\ (/\ effect.op \in {"Recipes.handleSubmit", "Ingredients.handleSubmit"}
      /\ effect.outcome \in {"saved", "failed"})
     => effect.data.userId = userId
  /\ effect.op \in {"Recipes.handleDelete", "Ingredients.handleDelete"}
     => effect.id \notin {OtherHarinaDoc.id, OtherTortaDoc.id}
  /\ HasSelectedRecipe => selectedRecipe.userId = userId
  /\ {x \in dbIngredients : x.userId # userId} = {OtherHarinaDoc}
  /\ {x \in dbRecipes : x.userId # userId} = {OtherTortaDoc}

\* With the other account's ingredient in the store, the inventory list
\* holds the account's own two: the one it had and the one just added.
C16_Witness ==
  /\ effect.op = "Ingredients.handleSubmit"
  /\ effect.outcome = "saved"
  /\ effect.call = "addDoc"
  /\ OtherHarinaDoc \in dbIngredients
  /\ Len(ingredients) = 2
  /\ Cardinality(dbIngredients) = 3

----------------------------------------------------------------------------
\* C17: the unit shown for a row is the usage unit of its ingredient's
\* purchase unit: grams for Kg and for Gr, millilitres for Lt, units for Un.
C17_UsageUnitFollowsPurchaseUnit ==
  \A k \in 1..Len(ingredientsList) :
    LET row == ingredientsList[k]
    IN  Resolves(availableIngredients, row.ingredientId) =>
          LET u == Find(availableIngredients, row.ingredientId).unit
          IN  /\ u \in {"Kg", "Gr"} => rowUnitLabel(row) = "gramos"
              /\ u = "Lt" => rowUnitLabel(row) = "ml"
              /\ u = "Un" => rowUnitLabel(row) = "unidades"

----------------------------------------------------------------------------
T100g == <<"1", "0", "0", " ", "g">>

T2p5g == <<"2", ".", "5", " ", "g">>

TicketRequested(id) == \E request \in pendingTickets : request.id = id

TicketSaved(id) == \E ticket \in savedTickets : ticket.id = id

\* C18: a ticket request made while no recipe of the list matches the
\* selection produces nothing.  Any other request is kept with the name of
\* the selected recipe, the weight and the price 3 * costPerGram * weight
\* of that moment; its logo then loads or fails, one of the two and once,
\* and the one ticket saved for it carries that name, weight and price
\* (the price in whole units), whatever the screen shows by then.  Every
\* request kept is followed by its ticket.
C18_OneTicketPerRequest ==
  /\ [](/\ \A t1, t2 \in savedTickets : t1.id = t2.id => t1 = t2
        /\ \A request \in pendingTickets : ~TicketSaved(request.id)
        /\ \A ticket \in savedTickets :
             /\ ticket.name = Torta
             /\ \/ ticket.weight = T100g /\ ticket.price = Int2Num(1200)
                \/ ticket.weight = T2p5g /\ ticket.price = Int2Num(30))
  /\ [][effect'.op = "Calculator.generateTicket" =>
          IF \A k \in 1..Len(calcRecipes) : calcRecipes[k].id # selectedRecipeId
          THEN /\ effect'.outcome = "nothing"
               /\ pendingTickets' = pendingTickets
               /\ savedTickets' = savedTickets
          ELSE LET c == selectedRecipe.costPerGram
               IN  /\ savedTickets' = savedTickets
                   /\ \E request \in pendingTickets' :
                        /\ pendingTickets' = pendingTickets \cup {request}
                        /\ request \notin pendingTickets
                        /\ ~TicketRequested(request.id) /\ ~TicketSaved(request.id)
                        /\ request.name = selectedRecipe.name
                        /\ request.weight = weight
                        /\ request.suggestedPrice =
                             Num(3 * c.n * weight.n, c.d * weight.d)]_vars
  /\ [][effect'.op \in {"img.onload", "img.onerror"} =>
          \E request \in pendingTickets :
            /\ request.id = effect'.id
            /\ pendingTickets' = pendingTickets \ {request}
            /\ \E ticket \in savedTickets' :
                 /\ savedTickets' = savedTickets \cup {ticket}
                 /\ ticket \notin savedTickets
                 /\ ticket.id = request.id
                 /\ ticket.withLogo = (effect'.op = "img.onload")
                 /\ ticket.name = request.name
                 /\ ticket.weight = toString(request.weight) \o <<" ", "g">>
                 /\ ticket.price = RoundedToUnits(request.suggestedPrice)]_vars
  /\ [][(pendingTickets' # pendingTickets \/ savedTickets' # savedTickets) =>
          effect'.op \in {"Calculator.generateTicket", "img.onload", "img.onerror"}]_vars
  /\ \A id \in 1..MaxTickets : TicketRequested(id) ~> TicketSaved(id)

\* Two tickets were requested at 100 g; the first was saved with the logo
\* and the second without it, after the weight on the screen had been
\* changed to 2.50.
C18_Witness ==
  /\ sellWeight = T2p50
  /\ pendingTickets = {}
  /\ Cardinality(savedTickets) = 2
  /\ \A ticket \in savedTickets : ticket.weight = T100g /\ ticket.price = Int2Num(1200)
  /\ \E t1, t2 \in savedTickets : t1.withLogo /\ ~t2.withLogo
  /\ effect.op = "img.onerror"

----------------------------------------------------------------------------
DeleteDone == effect'.op = "Recipes.handleDelete" /\ effect'.outcome = "deleted"

FormIsEmpty ==
  /\ recipeName = <<>>
  /\ ingredientsList = <<>>
  /\ totalYield = <<>>
  /\ editingId = NoId

\* C19: a delete of the recipe loaded in the form, accepted by the store,
\* leaves the form empty and editingId null, and a delete of any other
\* recipe leaves the form and editingId as they were; so editingId never
\* names a recipe this session has deleted, a submit updates only a recipe
\* the store holds, and a submit made with editingId null creates.
C19_DeleteOfLoadedRecipeResetsForm ==
  /\ [][DeleteDone =>
          /\ ~HasDoc(dbRecipes', effect'.id)
          /\ IF editingId = effect'.id
             THEN FormIsEmpty'
             ELSE UNCHANGED formVars]_vars
  /\ [](editingId # NoId => HasDoc(dbRecipes, editingId))
  /\ [][(SubmitStep /\ effect'.outcome \in {"saved", "failed"}) =>
          /\ editingId = NoId => effect'.call = "addDoc"
          /\ effect'.call = "updateDoc" =>
                effect'.id = editingId /\ HasDoc(dbRecipes, effect'.id)]_vars

\* The recipe loaded in the form has just been deleted: the form is empty
\* and the other recipe of the account is still listed.
C19_Witness ==
  /\ effect.op = "Recipes.handleDelete"
  /\ effect.outcome = "deleted"
  /\ effect.reset
  /\ effect.id = 6
  /\ FormIsEmpty
  /\ dbRecipes = {PanStored}
  /\ Len(savedRecipes) = 1

----------------------------------------------------------------------------
Ids(col) == {x.id : x \in col}

\* C20: a submit the store accepts writes one record.  With editingId set
\* it is an update of the record with that id: the recipes stored keep
\* their ids and their number, and every other one is as it was.  With
\* editingId null it is a create: one record with a new id is added and
\* every record stored before is as it was.  After either the form is empty
\* and editingId is null, and no ingredient record has changed.
C20_SubmitWritesExactlyOneRecord ==
  [][(SubmitStep /\ effect'.outcome = "saved") =>
       /\ dbIngredients' = dbIngredients
       /\ FormIsEmpty'
       /\ WithId(effect'.data, effect'.id) \in dbRecipes'
       /\ \A x \in dbRecipes : x.id # effect'.id => x \in dbRecipes'
       /\ \A x \in dbRecipes' : x.id # effect'.id => x \in dbRecipes
       /\ Cardinality({x \in dbRecipes' : x.id = effect'.id}) = 1
       /\ IF editingId # NoId
          THEN /\ effect'.call = "updateDoc"
               /\ effect'.id = editingId
               /\ Ids(dbRecipes') = Ids(dbRecipes)
               /\ Cardinality(dbRecipes') = Cardinality(dbRecipes)
          ELSE /\ effect'.call = "addDoc"
               /\ effect'.id \notin Ids(dbRecipes)
               /\ dbRecipes \subseteq dbRecipes'
               /\ Cardinality(dbRecipes') = Cardinality(dbRecipes) + 1]_vars

\* The second stored recipe was loaded, renamed and saved: the store holds
\* it under its id with the new name beside the first one, which is as it
\* was, and the form is empty.
C20_Witness ==
  /\ SubmitWrote
  /\ effect.call = "updateDoc"
  /\ effect.id = 7
  /\ effect.data.name = Torta
  /\ PanStored \notin dbRecipes
  /\ [PanStored EXCEPT !.name = Torta] \in dbRecipes
  /\ TortaStored \in dbRecipes
  /\ Cardinality(dbRecipes) = 2
  /\ FormIsEmpty

----------------------------------------------------------------------------
\* C21: whenever the price panel of the sale calculator is displayed, the
\* selected recipe id is the id of a recipe of the current list, whatever
\* the order of selections, quantity entries and snapshots.
C21_PanelOnlyForListedRecipe == PanelShown => HasSelectedRecipe

----------------------------------------------------------------------------
\* C22: in the ingredient form, an editingId that is not null is the id of
\* an ingredient of the current list.
C22_EditingIdIsListed ==
  ingEditingId # NoId => Resolves(ingredients, ingEditingId)

====
